---------------------------- MODULE Spec2Model ----------------------------
(***************************************************************************)
(* The two containers of the repository:                                   *)
(*   - the generic dynamic array of src/ds/dyn_array.c (DynArray), a       *)
(*     control structure {items, count, cap, size} over a malloc'ed block  *)
(*     of cap * size bytes, and                                            *)
(*   - the singly-linked list of src/ds/linked_list.c (IntList/IntNode).   *)
(* Memory is modelled at the level the code works at: the array's storage  *)
(* is a flat sequence of bytes addressed by byte offsets, and list nodes   *)
(* live in a heap of node cells addressed by pointers.                     *)
(***************************************************************************)
EXTENDS Integers, Sequences, FiniteSets, TLC

(* ---------------------------- bounds ---------------------------------- *)

\* push_dyn_array is enabled while count < MaxCount.
MaxCount == 6

\* The number of block addresses malloc can hand out for array storage.
NumBlocks == 2

\* The number of node addresses malloc can hand out: at most MaxNodes appends.
MaxNodes == 4

(* --------------------------- memory model ----------------------------- *)

\* The null pointer.
NULL == 0

\* The content of a byte that malloc returned and nobody wrote yet.
Uninit == -1

\* The values a byte of an element takes in the model.
Bytes == {0, 1}

\* The element sizes new_dyn_array is called with.
ElemSizes == {1, 2}

\* Addresses of storage blocks.
Addrs == 1..NumBlocks

\* All elements of sz bytes.
Values(sz) == [1..sz -> Bytes]

\* The elements the callers push: for each size two byte patterns that differ
\* in every byte and, from size 2 on, have no two neighbouring bytes alike.
Elems(sz) == {[i \in 1..sz |-> (i + k) % 2] : k \in 0..1}

\* malloc(n) returning address a: a block of n unwritten bytes.
Malloc(h, a, n) == [h EXCEPT ![a] = [i \in 1..n |-> Uninit]]

\* free(a): the block is gone.
Free(h, a) == [h EXCEPT ![a] = <<>>]

\* Whether the n bytes at byte offset off of block a lie inside the block.
InBounds(h, a, off, n) == a # NULL /\ off >= 0 /\ n >= 0 /\ off + n <= Len(h[a])

\* The n bytes at byte offset off of block a (the source of a memcpy).
ReadBytes(h, a, off, n) ==
    [i \in 1..n |-> IF off + i \in 1..Len(h[a]) THEN h[a][off + i] ELSE Uninit]

\* memcpy(a + off, bytes, Len(bytes)): the bytes land at offset off of block a.
Memcpy(h, a, off, bytes) ==
    [h EXCEPT ![a] = [i \in 1..Len(h[a]) |->
        IF i > off /\ i <= off + Len(bytes) THEN bytes[i - off] ELSE h[a][i]]]

\* The byte offsets off .. off + n - 1.
Range(off, n) == off..(off + n - 1)

(* ----------------------------- state ---------------------------------- *)

VARIABLES
    \* DynArray (src/ds/dyn_array.c)
    array,      \* the DynArray* new_dyn_array returned
    heap,       \* storage blocks: address -> bytes, <<>> when not allocated
    items,      \* array->items
    count,      \* array->count
    cap,        \* array->cap
    size,       \* array->size
    popped,     \* the caller's output buffer handed to pop_dyn_array
    ret,        \* what the last operation returned, when it was a pop_dyn_array
    view,       \* the bytes it produced, when it was an element access
    printed,    \* the elements it printed, when it was a print_user_array
    \* history of the array's operations
    lastOp,     \* the operation that produced this state
    lastVal,    \* the value handed to it, when it was a push_dyn_array; a pop
                \* right after a push keeps that push's lastVal and grew
    lastIdx,    \* the index handed to it, when it was an element access
    prevCount,  \* count before it
    grew,       \* it was a push_dyn_array that took the resize branch
    rd,         \* byte offsets of the storage the last operation read
    stack,      \* the values pushed and not yet popped, oldest first
    popSeen,    \* pop_dyn_array has been called since the array was created
    peak,       \* the largest count the array has had
    \* IntList (src/ds/linked_list.c)
    nodes,      \* heap of IntNode cells: address -> [next, value]
    head,       \* list->head
    tail,       \* list->tail
    wpc,        \* where walk_and_print_list is: idle, walking, done, or, after
                \* a null dereference, crashed or wild
    wnode,      \* the node argument of the current walk_and_print_list call
    visited,    \* the nodes the visitor was applied to, in order
    appended,   \* every value appended so far, in order
    created,    \* the node each append allocated, in order
    \* both
    ub          \* the program has run into undefined behaviour

arrVars == <<array, heap, items, count, cap, size, popped, ret, view, printed,
             lastOp, lastVal, lastIdx, prevCount, grew, rd, stack, popSeen, peak>>
listVars == <<nodes, head, tail, wpc, wnode, visited, appended, created>>
vars == <<arrVars, listVars, ub>>

(* ----------------------- DynArray: dyn_array.c ------------------------ *)

\* array->cap = 2 in new_dyn_array.
InitialCap == 2

\* The address malloc returns for the control structure.
CtrlAddr == 1

\* The heap before the first malloc. The null pointer addresses no bytes.
EmptyHeap == [b \in Addrs \cup {NULL} |-> <<>>]

\* new_dyn_array(sz), malloc returning block a for the items.
new_dyn_array(sz, a) ==
    /\ array = CtrlAddr
    /\ size = sz
    /\ count = 0
    /\ cap = InitialCap
    /\ items = a
    /\ heap = Malloc(EmptyHeap, a, sz * InitialCap)

\* new_dyn_array(sz) when malloc may return NULL: arr is what the first
\* malloc returns and a what the second returns. Neither is tested: with
\* arr = NULL the stores array->count = 0, ... go through the null pointer,
\* with a = NULL the array is returned with items = NULL.
new_dyn_array_nomem(sz, arr, a) ==
    /\ array = arr
    /\ size = sz
    /\ count = 0
    /\ cap = InitialCap
    /\ items = a
    /\ heap = IF a = NULL THEN EmptyHeap ELSE Malloc(EmptyHeap, a, sz * InitialCap)
    /\ ub = (arr = NULL)

\* main's `User popped_user;`: an output buffer nobody wrote yet.
FreshBuffer(sz) == [i \in 1..sz |-> Uninit]

\* What main holds besides the array when new_dyn_array has returned.
CallerInit(sz) ==
    /\ popped = FreshBuffer(sz)
    /\ ret = 0
    /\ view = <<>>
    /\ printed = <<>>
    /\ lastOp = "new"
    /\ lastVal = <<>>
    /\ lastIdx = 0
    /\ prevCount = 0
    /\ grew = FALSE
    /\ rd = {}
    /\ stack = <<>>
    /\ popSeen = FALSE
    /\ peak = 0

ArrayInit(sz, a) ==
    /\ new_dyn_array(sz, a)
    /\ CallerInit(sz)

\* A resize test that is one push early.
NeedsResizeEarly(cnt, c) == cnt + 1 >= c

\* A resize test that is one push late.
NeedsResizeLate(cnt, c) == cnt > c

\* if (array->count >= array->cap)
NeedsResize(cnt, c) == cnt >= c

\* A growth by one slot instead of a doubling.
GrowCapByOne(c) == c + 1

\* array->cap *= 2
GrowCap(c) == c * 2

\* A copy that leaves the last element behind.
CopyLenShort(sz, cnt) == sz * (cnt - 1)

\* memcpy(new_items, array->items, array->size * array->count): the length.
CopyLen(sz, cnt) == sz * cnt

\* A destination that is not scaled by the element size.
DestOffsetUnscaled(sz, cnt) == cnt

\* dest = (char*)array->items + array->size * array->count
DestOffset(sz, cnt) == sz * cnt

\* A source one slot past the last element.
SrcOffsetPastEnd(sz, cnt) == cnt * sz

\* src = (char*)array->items + ((array->count - 1) * array->size)
SrcOffset(sz, cnt) == (cnt - 1) * sz

\* An emptiness test that also fires on the last element.
IsEmptyOffByOne(cnt) == cnt <= 1

\* An emptiness test that never fires.
IsEmptyNever(cnt) == cnt < 0

\* if (array->count == 0) return 0;
IsEmpty(cnt) == cnt = 0

\* (char*)array->items + (array->size * i)
ElemOffset(sz, i) == sz * i

\* The element at index i of the array {h, it, sz}, read the way
\* print_user_array reads it.
Slot(h, it, sz, i) == ReadBytes(h, it, ElemOffset(sz, i), sz)

\* The resize branch of push_dyn_array, malloc returning block a: the new
\* heap, in which the old block is copied and then freed.
Resize(h, old, a, newCap, sz, cnt) ==
    Free(Memcpy(Malloc(h, a, newCap * sz), a, 0,
                ReadBytes(h, old, 0, CopyLen(sz, cnt))), old)

\* push_dyn_array(array, val)
push_dyn_array(val) ==
    /\ ~ub
    /\ count < MaxCount
    /\ LET grow == NeedsResize(count, cap)
           newCap == IF grow THEN GrowCap(cap) ELSE cap
       IN \E a \in Addrs \cup {NULL} :
            /\ IF grow THEN (a \in Addrs /\ heap[a] = <<>>) ELSE a = items
            /\ LET h1 == IF grow
                         THEN Resize(heap, items, a, newCap, size, count)
                         ELSE heap
                   dest == DestOffset(size, count)
               IN /\ heap' = Memcpy(h1, a, dest, val)
                  /\ ub' = \/ ~InBounds(h1, a, dest, size)
                           \/ (grow /\ ~InBounds(heap, items, 0, CopyLen(size, count)))
                  /\ items' = a
                  /\ cap' = newCap
                  /\ count' = count + 1
                  /\ rd' = IF grow THEN Range(0, CopyLen(size, count)) ELSE {}
                  /\ grew' = grow
    /\ lastOp' = "push"
    /\ lastVal' = val
    /\ lastIdx' = 0
    /\ prevCount' = count
    /\ stack' = Append(stack, val)
    /\ peak' = IF count + 1 > peak THEN count + 1 ELSE peak
    /\ ret' = 0
    /\ view' = <<>>
    /\ printed' = <<>>
    /\ UNCHANGED <<array, size, popped, popSeen, listVars>>

\* push_dyn_array(array, val) taking the resize branch with malloc returning
\* NULL: new_items is not tested, so the copy of the old elements and the
\* copy of val both go through the null pointer; the old block is freed.
push_dyn_array_nomem(val) ==
    /\ ~ub
    /\ count < MaxCount
    /\ NeedsResize(count, cap)
    /\ cap' = GrowCap(cap)
    /\ heap' = Free(heap, items)
    /\ items' = NULL
    /\ ub' = TRUE
    /\ count' = count + 1
    /\ rd' = Range(0, CopyLen(size, count))
    /\ grew' = TRUE
    /\ lastOp' = "push"
    /\ lastVal' = val
    /\ lastIdx' = 0
    /\ prevCount' = count
    /\ stack' = Append(stack, val)
    /\ peak' = IF count + 1 > peak THEN count + 1 ELSE peak
    /\ ret' = 0
    /\ view' = <<>>
    /\ printed' = <<>>
    /\ UNCHANGED <<array, size, popped, popSeen, listVars>>

\* A pop that also clears the slot it vacates.
pop_dyn_array_clearing ==
    /\ ~ub
    /\ IF IsEmpty(count)
       THEN /\ ret' = 0
            /\ rd' = {}
            /\ ub' = FALSE
            /\ UNCHANGED <<popped, count, heap>>
       ELSE LET src == SrcOffset(size, count)
            IN /\ popped' = ReadBytes(heap, items, src, size)
               /\ heap' = Memcpy(heap, items, src, [i \in 1..size |-> 0])
               /\ rd' = Range(src, size)
               /\ ub' = ~InBounds(heap, items, src, size)
               /\ count' = count - 1
               /\ ret' = 1
    /\ lastOp' = "pop"
    /\ popSeen' = TRUE
    /\ stack' = IF stack = <<>> THEN stack ELSE SubSeq(stack, 1, Len(stack) - 1)
    /\ lastVal' = IF lastOp = "push" THEN lastVal ELSE <<>>
    /\ grew' = (lastOp = "push" /\ grew)
    /\ lastIdx' = 0
    /\ prevCount' = count
    /\ view' = <<>>
    /\ printed' = <<>>
    /\ UNCHANGED <<array, items, cap, size, peak, listVars>>

\* pop_dyn_array(array, popped)
pop_dyn_array ==
    /\ ~ub
    /\ IF IsEmpty(count)
       THEN /\ ret' = 0
            /\ rd' = {}
            /\ ub' = FALSE
            /\ UNCHANGED <<popped, count>>
       ELSE LET src == SrcOffset(size, count)
            IN /\ popped' = ReadBytes(heap, items, src, size)
               /\ rd' = Range(src, size)
               /\ ub' = ~InBounds(heap, items, src, size)
               /\ count' = count - 1
               /\ ret' = 1
    /\ lastOp' = "pop"
    /\ popSeen' = TRUE
    /\ stack' = IF stack = <<>> THEN stack ELSE SubSeq(stack, 1, Len(stack) - 1)
    /\ lastVal' = IF lastOp = "push" THEN lastVal ELSE <<>>
    /\ grew' = (lastOp = "push" /\ grew)
    /\ lastIdx' = 0
    /\ prevCount' = count
    /\ view' = <<>>
    /\ printed' = <<>>
    /\ UNCHANGED <<array, heap, items, cap, size, peak, listVars>>

\* An element read as the caller sees it: a byte nobody wrote holds any value.
Resolve(bytes) ==
    {v \in Values(Len(bytes)) :
        \A k \in 1..Len(bytes) : bytes[k] # Uninit => v[k] = bytes[k]}

\* The element access of print_user_array's loop body, for index i:
\* (User*)((char*)array->items + (array->size * i)), then the read of *user.
\* The expression checks nothing: i is whatever the caller hands it.
element_at(i) ==
    /\ ~ub
    /\ LET off == ElemOffset(size, i)
       IN /\ view' \in Resolve(ReadBytes(heap, items, off, size))
          /\ rd' = Range(off, size)
          /\ ub' = ~InBounds(heap, items, off, size)
    /\ lastOp' = "at"
    /\ lastIdx' = i
    /\ lastVal' = <<>>
    /\ grew' = FALSE
    /\ prevCount' = count
    /\ ret' = 0
    /\ printed' = <<>>
    /\ UNCHANGED <<array, heap, items, count, cap, size, popped, stack, popSeen, peak, listVars>>

\* print_user_array(array): for (i = 0; i < array->count; ++i) print element i.
print_user_array ==
    /\ ~ub
    /\ printed' = [i \in 1..count |-> Slot(heap, items, size, i - 1)]
    /\ rd' = UNION {Range(ElemOffset(size, i), size) : i \in 0..(count - 1)}
    /\ ub' = \E i \in 0..(count - 1) :
                ~InBounds(heap, items, ElemOffset(size, i), size)
    /\ lastOp' = "print"
    /\ lastVal' = <<>>
    /\ grew' = FALSE
    /\ lastIdx' = 0
    /\ prevCount' = count
    /\ ret' = 0
    /\ view' = <<>>
    /\ UNCHANGED <<array, heap, items, count, cap, size, popped, stack, popSeen, peak, listVars>>

(* ---------------------- IntList: linked_list.c ------------------------- *)

\* Addresses of node cells.
NodeAddrs == 1..MaxNodes

\* The values main appends.
NodeVals == {5, 10, 20, 40}

\* IntList numbers = {NULL, NULL};
ListInit ==
    /\ nodes = <<>>
    /\ head = NULL
    /\ tail = NULL
    /\ wpc = "idle"
    /\ wnode = NULL
    /\ visited = <<>>
    /\ appended = <<>>
    /\ created = <<>>

\* node = malloc(sizeof(IntNode)); node->value = node_val; node->next = NULL;
NewNode(ns, node, node_val) == ns @@ (node :> [next |-> NULL, value |-> node_val])

\* A head that follows every new node.
NewHeadAlways(hd, node) == node

\* if (list->head == NULL) list->head = node; : the head afterwards.
NewHead(hd, node) == IF hd = NULL THEN node ELSE hd

\* A link from the head, not from the tail, to the new node.
LinkHead(ns, hd, tl, node) ==
    IF hd = NULL THEN ns ELSE [ns EXCEPT ![hd].next = node]

\* else list->tail->next = node; : the node heap afterwards.
LinkTail(ns, hd, tl, node) ==
    IF hd = NULL THEN ns ELSE [ns EXCEPT ![tl].next = node]

\* A tail that is set by the first append only.
NewTailOnce(tl, node) == IF tl = NULL THEN node ELSE tl

\* list->tail = node;
NewTail(tl, node) == node

\* push_node(list, node_val), malloc returning the cell at address node.
push_node(node_val) ==
    /\ ~ub
    /\ wpc # "walking"
    /\ \E node \in NodeAddrs \ DOMAIN nodes :
         /\ nodes' = LinkTail(NewNode(nodes, node, node_val), head, tail, node)
         /\ head' = NewHead(head, node)
         /\ tail' = NewTail(tail, node)
         /\ created' = Append(created, node)
    /\ appended' = Append(appended, node_val)
    /\ wpc' = "idle"
    /\ wnode' = NULL
    /\ visited' = <<>>
    /\ UNCHANGED <<arrVars, ub>>

\* main's call walk_and_print_list(numbers.head, print_node).
walk_call ==
    /\ ~ub
    /\ wpc # "walking"
    /\ wpc' = "walking"
    /\ wnode' = head
    /\ visited' = <<>>
    /\ UNCHANGED <<nodes, head, tail, appended, created, arrVars, ub>>

\* A successor read that skips a node.
NextOfSkipping(ns, node) ==
    IF ns[node].next = NULL THEN NULL ELSE ns[ns[node].next].next

\* node->next, read after the visitor returned.
NextOf(ns, node) == ns[node].next

\* A walk that returns at once when handed NULL.
walk_and_print_list_guarded ==
    /\ ~ub
    /\ wpc = "walking"
    /\ ub' = FALSE
    /\ IF wnode = NULL
       THEN /\ visited' = visited
            /\ wnode' = NULL
            /\ wpc' = "done"
       ELSE /\ visited' = Append(visited, wnode)
            /\ IF NextOf(nodes, wnode) # NULL
               THEN /\ wnode' = NextOf(nodes, wnode)
                    /\ wpc' = "walking"
               ELSE /\ wnode' = NULL
                    /\ wpc' = "done"
    /\ UNCHANGED <<nodes, head, tail, appended, created, arrVars>>

\* One activation of walk_and_print_list(node, pfn): pfn(node), then the
\* recursive call on node->next when that is not NULL. print_node reads
\* node->value, so an activation on NULL dereferences the null pointer:
\* the program either stops there ("crashed") or gets past the visitor and
\* reads NULL->next, with whatever that yields ("wild").
walk_and_print_list ==
    /\ ~ub
    /\ wpc = "walking"
    /\ visited' = Append(visited, wnode)
    /\ IF wnode = NULL
       THEN /\ ub' = TRUE
            /\ wpc' \in {"crashed", "wild"}
            /\ wnode' = wnode
       ELSE /\ ub' = FALSE
            /\ IF NextOf(nodes, wnode) # NULL
               THEN /\ wnode' = NextOf(nodes, wnode)
                    /\ wpc' = "walking"
               ELSE /\ wnode' = NULL
                    /\ wpc' = "done"
    /\ UNCHANGED <<nodes, head, tail, appended, created, arrVars>>

(* -------------------------- specifications ---------------------------- *)

Init ==
    /\ \E sz \in ElemSizes, a \in Addrs : ArrayInit(sz, a)
    /\ ListInit
    /\ ub = FALSE

Next ==
    \/ \E val \in Elems(size) : push_dyn_array(val)
    \/ pop_dyn_array
    \/ \E i \in 0..cap : element_at(i)
    \/ print_user_array

Spec == Init /\ [][Next]_vars

\* The list program: the array stays as one new_dyn_array call left it.
InitList ==
    /\ ArrayInit(1, 1)
    /\ ListInit
    /\ ub = FALSE

NextList ==
    \/ \E node_val \in NodeVals : push_node(node_val)
    \/ walk_call
    \/ walk_and_print_list

SpecList == InitList /\ [][NextList]_vars

\* The list program with a walk that, once called, runs on: nothing but the
\* walk itself executes between the call and its return.
SpecListFair == SpecList /\ WF_vars(walk_and_print_list)

\* The array program on a system whose malloc may return NULL.
InitAlloc ==
    /\ \E sz \in ElemSizes, arr \in {NULL, CtrlAddr}, a \in Addrs \cup {NULL} :
          /\ new_dyn_array_nomem(sz, arr, a)
          /\ CallerInit(sz)
    /\ ListInit

NextAlloc ==
    \/ Next
    \/ \E val \in Elems(size) : push_dyn_array_nomem(val)

SpecAlloc == InitAlloc /\ [][NextAlloc]_vars

(* ------------------------- DynArray properties ------------------------ *)

\* The live elements of the array, index 0 first.
Live == [i \in 1..count |-> Slot(heap, items, size, i - 1)]

\* C1: as long as only pushes happened on the new array, count is the number
\* of pushes and index i holds the value of the i-th push, in push order;
\* print_user_array prints exactly these values.
C1_PushOrder ==
    ~popSeen =>
        /\ count = Len(stack)
        /\ \A i \in 0..(count - 1) : Slot(heap, items, size, i) = stack[i + 1]
        /\ (lastOp = "print" => printed = stack)

\* Five pushes and no pop, the storage resized twice, not all values alike.
C1_Witness ==
    /\ ~popSeen
    /\ lastOp = "push"
    /\ count = 5
    /\ cap = 8
    /\ size = 2
    /\ stack[1] # stack[2]
    /\ Live = stack

\* C2: a pop right after a push of v succeeds, leaves v in the buffer and
\* takes count back to what it was before the push, whether the push resized
\* the storage or not.
C2_PushPopRoundTrip ==
    [][(lastOp = "push" /\ lastOp' = "pop") =>
          (ret' = 1 /\ popped' = lastVal /\ count' = prevCount)]_vars

\* A pop into the unwritten buffer right after a push that resized.
C2_Witness ==
    /\ lastOp = "pop"
    /\ lastVal \in Elems(size)
    /\ grew
    /\ ret = 1
    /\ popped = lastVal
    /\ count = 2
    /\ cap = 4

\* C3: pop on an empty array returns 0, leaves the buffer as it was, reads
\* no byte of the storage and changes neither count, cap nor the storage.
C3_PopEmpty ==
    [][(lastOp' = "pop" /\ count = 0) =>
          /\ ret' = 0
          /\ popped' = popped
          /\ rd' = {}
          /\ count' = 0
          /\ cap' = cap
          /\ items' = items
          /\ heap' = heap]_vars

\* A failed pop with a buffer that still holds an earlier pop's element.
C3_Witness ==
    /\ lastOp = "pop"
    /\ ret = 0
    /\ count = 0
    /\ rd = {}
    /\ popped \in Elems(size)

\* C4: after 2k+1 pushes onto a new array (capacity 2, no pop) cap >= 2k+1
\* and every pushed value is read back at its push index; a push that resizes
\* frees the old block and has every element it held in the new block.
C4_Growth ==
    [][(lastOp' = "push" /\ ~popSeen') =>
          /\ (count' % 2 = 1 =>
                /\ count' = Len(stack')
                /\ cap' >= count'
                /\ \A i \in 0..(count' - 1) :
                      Slot(heap', items', size', i) = stack'[i + 1])
          /\ (cap' # cap =>
                /\ items' # items
                /\ heap'[items] = <<>>
                /\ \A i \in 0..(count - 1) :
                      Slot(heap', items', size', i) = Slot(heap, items, size, i))]_vars

\* The fifth push in a row: the second resize, 4 slots copied into 8.
C4_Witness ==
    /\ ~popSeen
    /\ lastOp = "push"
    /\ grew
    /\ count = 5
    /\ cap = 8
    /\ Live = stack
    /\ rd = Range(0, 4 * size)

\* C6: count never exceeds cap.
C6_CountWithinCap == count <= cap

\* A full array after pushes, pops and a resize.
C6_Witness ==
    /\ popSeen
    /\ lastOp = "push"
    /\ count = cap
    /\ cap = 4

\* C9: cap never decreases; it changes only in a push that finds count = cap,
\* and then doubles; a pop, and a push that finds count # cap, leave cap and
\* the items pointer alone.
C9_CapMonotone ==
    [][/\ cap' >= cap
       /\ (cap' # cap => (lastOp' = "push" /\ count = cap /\ cap' = 2 * cap))
       /\ ((lastOp' = "pop" \/ (lastOp' = "push" /\ count # cap)) =>
              (cap' = cap /\ items' = items))]_vars

\* A pop from an array that has resized twice: cap stays 8.
C9_Witness ==
    /\ lastOp = "pop"
    /\ ret = 1
    /\ cap = 8
    /\ count = 1

C12_PopFrame ==
    [][(lastOp' = "pop" /\ count > 0) =>
          /\ ret' = 1
          /\ popped' = Slot(heap, items, size, count - 1)
          /\ count' = count - 1
          /\ cap' = cap
          /\ size' = size
          /\ items' = items
          /\ array' = array
          /\ heap' = heap
          /\ \A i \in 0..(count - 1) :
                Slot(heap', items', size', i) = Slot(heap, items, size, i)]_vars

\* Three pushes and a pop, as in main: two elements live, the third still
\* in its slot and in the buffer.
C12_Witness ==
    /\ lastOp = "pop"
    /\ ret = 1
    /\ prevCount = 3
    /\ count = 2
    /\ cap = 4
    /\ Live = stack
    /\ stack[1] # stack[2]
    /\ Slot(heap, items, size, 2) = popped
    /\ popped \in Elems(size)

\* C13: the array refines the stack of values pushed and not yet popped:
\* after every step the live elements are that stack, a pop fails exactly
\* when the stack is empty and otherwise returns its last element, and a push
\* puts its value into the slot at the old count, the one the last pop of
\* that index vacated.
C13_RefinesStack ==
    [][/\ count' = Len(stack')
       /\ \A i \in 0..(count' - 1) : Slot(heap', items', size', i) = stack'[i + 1]
       /\ (lastOp' = "pop" =>
              /\ (ret' = 0 <=> stack = <<>>)
              /\ (ret' = 1 <=> stack # <<>>)
              /\ (stack # <<>> =>
                     (popped' = stack[Len(stack)] /\ Len(stack') = Len(stack) - 1))
              /\ (stack = <<>> => stack' = <<>>))
       /\ (lastOp' = "push" =>
              /\ stack' = Append(stack, lastVal')
              /\ Slot(heap', items', size', count) = lastVal')]_vars

\* A push right after a pop, of a value other than the popped one: the
\* vacated slot now holds the new value.
C13_Witness ==
    /\ lastOp = "push"
    /\ popSeen
    /\ ~grew
    /\ count = 3
    /\ Live = stack
    /\ popped \in Elems(size)
    /\ popped # lastVal
    /\ Slot(heap, items, size, 2) = lastVal
    /\ Slot(heap, items, size, 3) = popped

\* The capacities doubling reaches from the initial one: 2, 4, 8, ...
RECURSIVE Doublings(_)
Doublings(j) == IF j = 0 THEN {InitialCap} ELSE {c * 2 : c \in Doublings(j - 1)} \cup {InitialCap}

\* C16: cap is 2 times a power of two, and the smallest such value that is
\* >= the largest count the array has had; so cap <= max(2, 2 * (peak - 1)).
C16_CapFromPeak ==
    /\ cap \in Doublings(MaxCount)
    /\ cap >= peak
    /\ \A c \in Doublings(MaxCount) : c >= peak => cap <= c
    /\ cap <= (IF 2 * (peak - 1) > 2 THEN 2 * (peak - 1) ELSE 2)
    /\ peak >= count

\* The array has held five elements and now holds one: cap is still 8.
C16_Witness ==
    /\ peak = 5
    /\ cap = 8
    /\ count = 1
    /\ lastOp = "pop"

\* C11: new_dyn_array never returns, nor works on, an array whose control
\* structure or storage malloc did not provide: when memory is not to be
\* had it fails with an allocation error, so a state in which new_dyn_array
\* has just completed has both pointers set and no store through NULL.
C11_CreateFailsOnNoMemory ==
    lastOp = "new" => (array # NULL /\ items # NULL /\ ~ub)

(* -------------------------- IntList properties ------------------------ *)

\* The values of a sequence of nodes.
ValuesOf(ns) == [i \in 1..Len(ns) |-> nodes[ns[i]].value]

\* The node k hops down the chain from node n: k reads of ->next, NULL once
\* the chain has ended.
RECURSIVE Hop(_, _)
Hop(n, k) ==
    IF k = 0 \/ n = NULL THEN n ELSE Hop(NextOf(nodes, n), k - 1)

\* C5: after k >= 1 appends the tail is the node the k-th append created,
\* head and tail hold the first and the last appended value, and a finished
\* walk from head has handed the visitor the nodes of the appends, once each
\* and in append order.
C5_WalkInAppendOrder ==
    Len(appended) >= 1 =>
        /\ tail = created[Len(created)]
        /\ nodes[tail].value = appended[Len(appended)]
        /\ nodes[head].value = appended[1]
        /\ (wpc = "done" => (visited = created /\ ValuesOf(visited) = appended))

\* main's scenario: 5, 10, 20, 40 appended and walked.
C5_Witness ==
    /\ wpc = "done"
    /\ appended = <<5, 10, 20, 40>>
    /\ ValuesOf(visited) = <<5, 10, 20, 40>>
    /\ nodes[head].value = 5
    /\ nodes[tail].value = 40

\* C7: head is NULL exactly when tail is, then no node was allocated; and a
\* tail that is not NULL has no successor.
C7_HeadTail ==
    /\ (head = NULL <=> tail = NULL)
    /\ (head = NULL => (DOMAIN nodes = {} /\ appended = <<>>))
    /\ (tail # NULL => nodes[tail].next = NULL)

\* Three appends: head and tail are different nodes.
C7_Witness ==
    /\ Len(appended) = 3
    /\ head # NULL
    /\ tail # NULL
    /\ head # tail
    /\ nodes[tail].next = NULL

\* C8 as stated: length hops from head end at tail, length the number of
\* nodes appended.
C8_TailInLengthHops == Hop(head, Len(appended)) = tail

\* C8, amended: a list of length >= 1 nodes reaches tail after exactly
\* length - 1 hops from head and not earlier, passes length distinct nodes on
\* the way (no cycle), and reaches NULL with the hop after tail; with no
\* node appended head and tail are NULL.
C8_TailInLengthMinusOneHops ==
    LET n == Len(appended)
    IN /\ (n = 0 => (head = NULL /\ tail = NULL))
       /\ (n >= 1 =>
             /\ Hop(head, n - 1) = tail
             /\ \A j \in 0..(n - 2) : Hop(head, j) \notin {tail, NULL}
             /\ Cardinality({Hop(head, j) : j \in 0..(n - 1)}) = n
             /\ {Hop(head, j) : j \in 0..(n - 1)} = DOMAIN nodes
             /\ Hop(head, n) = NULL)

\* Four nodes: tail is three hops from head.
C8_Witness ==
    /\ Len(appended) = 4
    /\ Hop(head, 3) = tail
    /\ Hop(head, 4) = NULL
    /\ Hop(head, 2) # tail

\* C14: a walk from the head of a list of k >= 1 nodes ends, and when it
\* has ended the visitor was applied exactly k times, to k different nodes,
\* the last of them tail; while it runs it has visited at most k nodes.
C14_WalkTerminates ==
    /\ (wpc = "walking" /\ head # NULL) ~> (wpc = "done")
    /\ [](wpc = "walking" => Len(visited) < Len(appended) \/ head = NULL)
    /\ [](wpc = "done" =>
            /\ Len(visited) = Len(appended)
            /\ Cardinality({visited[i] : i \in 1..Len(visited)}) = Len(visited)
            /\ visited[Len(visited)] = tail)

\* A finished walk over four nodes.
C14_Witness ==
    /\ wpc = "done"
    /\ Len(appended) = 4
    /\ Len(visited) = 4
    /\ visited[4] = tail
    /\ visited[1] = head

\* C15: walk_and_print_list tests nothing before it calls the visitor: an
\* activation on NULL, which is what a walk from the head of a list without
\* nodes is, hands NULL to the visitor and dereferences it, stopping there
\* or going on to read NULL->next; no walk finishes having visited no node.
C15_NoNullGuard ==
    /\ [][(wpc = "walking" /\ wnode = NULL) =>
            /\ visited' = Append(visited, NULL)
            /\ ub'
            /\ wpc' \in {"crashed", "wild"}]_vars
    /\ []((wpc = "walking" /\ wnode = NULL) => (head = NULL /\ visited = <<>>))
    /\ []((wpc = "walking" /\ head = NULL) => wnode = NULL)
    /\ [](wpc = "done" => Len(visited) >= 1)

\* The walk of a list nobody appended to got past the visitor on NULL.
C15_Witness ==
    /\ wpc = "wild"
    /\ ub
    /\ appended = <<>>
    /\ head = NULL
    /\ visited = <<NULL>>

=============================================================================
